---------------------------- MODULE Spec2Model ----------------------------
(***************************************************************************)
(* A model of pylint_report.py: the score formula (get_score), the HTML    *)
(* renderer (json2html), the pylint reporter plugin (CustomJsonReporter    *)
(* with _SetEncoder) and the command-line entry point (__main__).          *)
(*                                                                         *)
(* Python values are modelled as follows.                                  *)
(*   str     a sequence of one-character strings, <<"a", "&">>             *)
(*   int     an integer                                                    *)
(*   float   a reduced fraction [t |-> "float", num, den], den > 0         *)
(*   None    [t |-> "None"]                                                *)
(*   dict    a function from keys to values                                *)
(*   list    a sequence                                                    *)
(*   set     a set                                                         *)
(***************************************************************************)
EXTENDS Integers, Sequences, FiniteSets, TLC

VARIABLES
    stats,        \* get_score: the statistics mapping handed to get_score
    score,        \* get_score: what the call returned ("pending" record before)
    data,         \* json2html: the parsed input {messages, stats}
    html,         \* json2html: the document produced (its structure)
    messages,     \* CustomJsonReporter.messages, the record buffer
    out,          \* CustomJsonReporter.out: the documents printed so far
    events,       \* the diagnostics the linter has delivered so far (history)
    host,         \* the statistics the linter passed to on_close (history)
    loaded,       \* what json.load makes of the last printed document
    pc,           \* __main__: position of the command-line run
    args,         \* __main__: the command line and the files it names
    json_file,    \* __main__: state of the input handle
    html_file,    \* __main__: state of the output handle
    json_data,    \* __main__: what json.load returned
    printed,      \* __main__: what print() wrote, and to which file
    failure       \* __main__: the unhandled exception that ended the run, or "none"

vars == <<stats, score, data, html, messages, out, events, host, loaded,
          pc, args, json_file, html_file, json_data, printed, failure>>

scoreVars    == <<stats, score>>
renderVars   == <<data, html>>
reporterVars == <<messages, out, events, host, loaded>>
mainVars     == <<pc, args, json_file, html_file, json_data, printed, failure>>

(***************************************************************************)
(* Bounds of the model.                                                    *)
(***************************************************************************)
MaxCount == 2       \* severity and statement counts range over 0..MaxCount
MaxMessages == 3    \* json2html: at most this many diagnostic records
MaxLine == 2        \* json2html: line numbers range over 1..MaxLine
MaxEvents == 2      \* reporter: at most this many diagnostics in one run
MaxSetSize == 2     \* reporter: the sets in the statistics have at most this many elements
MaxMsgLen == 3      \* round trip: message texts of at most this many characters

(***************************************************************************)
(* Python values.                                                          *)
(***************************************************************************)
None == [t |-> "None"]

Pending == [t |-> "pending"]

RECURSIVE Gcd(_, _)
Gcd(a, b) == IF b = 0 THEN a ELSE Gcd(b, a % b)

Abs(n) == IF n < 0 THEN -n ELSE n

\* The float n/d (d > 0), kept as a reduced fraction so that equal numbers
\* are equal values.
Float(n, d) ==
    LET g == Gcd(Abs(n), d)
    IN  [t |-> "float", num |-> n \div g, den |-> d \div g]

\* dict.get(key, default)
Get(d, key, default) == IF key \in DOMAIN d THEN d[key] ELSE default

\* '{:.2f}'.format(x) for a number x = num/den, as the integer number of
\* hundredths printed (920 stands for "9.20", -100 for "-1.00"): the nearest
\* hundredth, an exact tie going to the even one.
Format2f(x) ==
    LET n == x.num * 100
        q == n \div x.den
        r == n % x.den
    IN  IF 2 * r > x.den THEN q + 1
        ELSE IF 2 * r < x.den THEN q
        ELSE IF q % 2 = 0 THEN q ELSE q + 1

(***************************************************************************)
(* get_score                                                               *)
(***************************************************************************)
\* a get_score that returns 0 where no score can be computed
ScoreUnavailableZero == Float(0, 1)

\* the early return of get_score: no score can be computed
ScoreUnavailable == None

\* a penalty without the weight of 5 on errors
PenaltyUnweighted(e, w, r, c) == e + w + r + c

\* the weighted number of diagnostics, 5 * e + w + r + c
Penalty(e, w, r, c) == 5 * e + w + r + c

get_score(st) ==
    IF "statement" \notin DOMAIN st \/ st["statement"] = 0
    THEN ScoreUnavailable
    ELSE LET s == Get(st, "statement", None)
             e == Get(st, "error", 0)
             w == Get(st, "warning", 0)
             r == Get(st, "refactor", 0)
             c == Get(st, "convention", 0)
         IN  \* 10 - 10*(5 * e + w + r + c) / s
             Float(10 * s - 10 * Penalty(e, w, r, c), s)

(***************************************************************************)
(* Strings: Python compares str values by code point, left to right.       *)
(***************************************************************************)
\* the characters of the model, in ascending code point order
CharOrder == <<"\"", "&", ";", "<", ">", "\\", "a", "b", "g", "l", "m", "p", "t">>

Ord(ch) == CHOOSE i \in 1..Len(CharOrder) : CharOrder[i] = ch

RECURSIVE StrLt(_, _)
StrLt(a, b) ==
    IF b = <<>> THEN FALSE
    ELSE IF a = <<>> THEN TRUE
    ELSE IF Head(a) = Head(b) THEN StrLt(Tail(a), Tail(b))
    ELSE Ord(Head(a)) < Ord(Head(b))

Range(s) == {s[i] : i \in 1..Len(s)}

\* the number of elements of s that satisfy Test
Count(s, Test(_)) == Cardinality({i \in 1..Len(s) : Test(s[i])})

\* a set of strings as the sequence of its elements in ascending order
RECURSIVE SortedStrs(_)
SortedStrs(S) ==
    IF S = {} THEN <<>>
    ELSE LET least == CHOOSE x \in S : \A y \in S : ~StrLt(y, x)
         IN  <<least>> \o SortedStrs(S \ {least})

(***************************************************************************)
(* pandas, as json2html uses it.  A DataFrame is the sequence of its rows, *)
(* each row a record of the columns.                                       *)
(***************************************************************************)
\* the distinct values of a column in the order they first occur
RECURSIVE FirstSeen(_, _)
FirstSeen(df, col) ==
    IF df = <<>> THEN <<>>
    ELSE LET front == FirstSeen(SubSeq(df, 1, Len(df) - 1), col)
             v     == df[Len(df)][col]
         IN  IF v \in Range(front) THEN front ELSE Append(front, v)

\* a groupby that keeps the groups in first-seen order (sort=False)
GroupKeysUnsorted(df) == FirstSeen(df, "module")

\* DataFrame.groupby('module'): the group keys.  groupby sorts the group
\* keys (its default, sort=True).
GroupKeys(df) == SortedStrs({r.module : r \in Range(df)})

\* one group of groupby('module'): the rows of that module, in frame order
Group(df, name) == SelectSeq(df, LAMBDA r : r.module = name)

\* a sort on the line alone
RowLtLineOnly(r1, r2) == r1.line < r2.line

\* the order of sort_values(['line', 'column']): line first, then column
RowLt(r1, r2) ==
    \/ r1.line < r2.line
    \/ r1.line = r2.line /\ r1.column < r2.column

\* sort_values on several columns is a stable sort: each row goes after the
\* rows already placed that are not greater than it
RECURSIVE SortValues(_)
SortValues(df) ==
    IF df = <<>> THEN <<>>
    ELSE LET front == SortValues(SubSeq(df, 1, Len(df) - 1))
             row   == df[Len(df)]
             p     == Count(front, LAMBDA r : ~RowLt(row, r))
         IN  SubSeq(front, 1, p) \o <<row>> \o SubSeq(front, p + 1, Len(front))

\* value.groupby(col)['module'].count().to_frame().reset_index(): one row per
\* value of the column, in ascending order, with the number of rows
CountBy(df, col) ==
    LET keys == SortedStrs({r[col] : r \in Range(df)})
    IN  [i \in 1..Len(keys) |->
            [key |-> keys[i], n |-> Count(df, LAMBDA r : r[col] = keys[i])]]

\* value[cols2keep]: the columns the detail table shows
cols2keep == {"line", "column", "symbol", "type", "obj", "message"}

Project(df, cols) == [i \in 1..Len(df) |-> [c \in cols |-> df[i][c]]]

(***************************************************************************)
(* json2html                                                               *)
(***************************************************************************)
\* msg, the dict of the per-module frames, as the sequence of its items in
\* the dict's (insertion) order
ModuleFrames(msgs) ==
    IF msgs # <<>>
    THEN LET names == GroupKeys(msgs)
         IN  [i \in 1..Len(names) |->
                 [name |-> names[i], df |-> SortValues(Group(msgs, names[i]))]]
    ELSE <<>>

\* a summary item that counts the frames instead of the module's rows
SummaryItemLenMsg(module, msg) ==
    IF \E i \in 1..Len(msg) : msg[i].name = module
    THEN [module |-> module, count |-> Len(msg), link |-> TRUE]
    ELSE [module |-> module, count |-> 0, link |-> FALSE]

\* one <li> of the modules summary
SummaryItem(module, msg) ==
    IF \E i \in 1..Len(msg) : msg[i].name = module
    THEN LET i == CHOOSE i \in 1..Len(msg) : msg[i].name = module
         IN  [module |-> module, count |-> Len(msg[i].df), link |-> TRUE]
    ELSE [module |-> module, count |-> 0, link |-> FALSE]

\* one <section> of the modules part
Section(item) ==
    [module |-> item.name,
     count  |-> Len(item.df),
     s1     |-> CountBy(item.df, "symbol"),
     s2     |-> CountBy(item.df, "type"),
     table  |-> Project(item.df, cols2keep)]

\* the score shown when get_score returns None
ScoreSentinel == Float(-1, 1)

\* the document, as its parts in order: the score as printed by {:.2f}, the
\* items of the summary list, the module sections
json2html(d) ==
    LET sc  == get_score(d.stats)
        msg == ModuleFrames(d.messages)
        by_module == d.stats.by_module
    IN  [score    |-> Format2f(IF sc # None THEN sc ELSE ScoreSentinel),
         summary  |-> [i \in 1..Len(by_module) |-> SummaryItem(by_module[i], msg)],
         sections |-> [i \in 1..Len(msg) |-> Section(msg[i])]]

(***************************************************************************)
(* Values of several Python types in one place (a message field, a member  *)
(* of the statistics) carry their type:                                    *)
(*   [t |-> "str", v |-> chars]   [t |-> "int", v |-> n]   None            *)
(*   [t |-> "list", v |-> seq]    [t |-> "dict", v |-> function of keys]   *)
(*   [t |-> "set", v |-> set]                                              *)
(***************************************************************************)
PyStr(s)  == [t |-> "str", v |-> s]
PyInt(n)  == [t |-> "int", v |-> n]
PyList(q) == [t |-> "list", v |-> q]
PyDict(f) == [t |-> "dict", v |-> f]
PySet(S)  == [t |-> "set", v |-> S]

(***************************************************************************)
(* html.escape(s, quote=False) and html.unescape(s)                        *)
(***************************************************************************)
\* str.replace(old, new) for a one-character old
RECURSIVE Replace(_, _, _)
Replace(s, old, new) ==
    IF s = <<>> THEN <<>>
    ELSE (IF Head(s) = old THEN new ELSE <<Head(s)>>) \o Replace(Tail(s), old, new)

\* an escape that leaves the ampersand alone
html_escape_no_amp(s) ==
    Replace(Replace(s, "<", <<"&", "l", "t", ";">>), ">", <<"&", "g", "t", ";">>)

\* html.escape(s, quote=False): & first, then < and >
html_escape(s) ==
    Replace(Replace(Replace(s, "&", <<"&", "a", "m", "p", ";">>),
                    "<", <<"&", "l", "t", ";">>),
            ">", <<"&", "g", "t", ";">>)

\* html.entities.html5, the names that can be spelled with the letters
\* a, g, l, m, p, t; "?" stands for a character outside the model's alphabet
html5 ==
    {<<<<"a", "m", "p">>, "&">>, <<<<"a", "m", "p", ";">>, "&">>,
     <<<<"l", "t">>, "<">>,      <<<<"l", "t", ";">>, "<">>,
     <<<<"g", "t">>, ">">>,      <<<<"g", "t", ";">>, ">">>,
     <<<<"a", "m", "a", "l", "g", ";">>, "?">>, <<<<"a", "p", ";">>, "?">>,
     <<<<"g", "a", "m", "m", "a", ";">>, "?">>, <<<<"g", "a", "p", ";">>, "?">>,
     <<<<"g", "g", ";">>, "?">>,      <<<<"g", "g", "g", ";">>, "?">>,
     <<<<"g", "l", ";">>, "?">>,      <<<<"g", "l", "a", ";">>, "?">>,
     <<<<"l", "a", "p", ";">>, "?">>, <<<<"l", "a", "t", ";">>, "?">>,
     <<<<"l", "g", ";">>, "?">>,      <<<<"l", "l", ";">>, "?">>,
     <<<<"m", "a", "l", "t", ";">>, "?">>, <<<<"m", "a", "p", ";">>, "?">>,
     <<<<"m", "p", ";">>, "?">>,      <<<<"p", "m", ";">>, "?">>}

InHtml5(name) == \E e \in html5 : e[1] = name

Html5(name) == (CHOOSE e \in html5 : e[1] = name)[2]

\* _replace_charref for a named reference s (the text after the &): the
\* entity itself, else the longest prefix of at least two characters that
\* is an entity, else the text unchanged
replace_charref(s) ==
    IF InHtml5(s) THEN <<Html5(s)>>
    ELSE LET prefixes == {x \in 2..(Len(s) - 1) : InHtml5(SubSeq(s, 1, x))}
         IN  IF prefixes # {}
             THEN LET x == CHOOSE x \in prefixes : \A y \in prefixes : y <= x
                  IN  <<Html5(SubSeq(s, 1, x))>> \o SubSeq(s, x + 1, Len(s))
             ELSE <<"&">> \o s

\* the characters [^\t\n\f <&#;] of the model
NameChar(ch) == ch \notin {"<", "&", "#", ";", " "}

\* the length of the longest prefix of s made of name characters, up to 32
RECURSIVE NameRun(_, _)
NameRun(s, n) ==
    IF s = <<>> \/ n = 32 \/ ~NameChar(Head(s)) THEN n
    ELSE NameRun(Tail(s), n + 1)

\* html.unescape: _charref.sub(_replace_charref, s), left to right, each
\* match &name;? replaced and the scan going on after it
RECURSIVE html_unescape(_)
html_unescape(s) ==
    IF s = <<>> THEN <<>>
    ELSE IF Head(s) # "&" THEN <<Head(s)>> \o html_unescape(Tail(s))
    ELSE LET rest == Tail(s)
             run  == NameRun(rest, 0)
             len  == IF run < Len(rest) /\ rest[run + 1] = ";" THEN run + 1 ELSE run
         IN  IF run = 0 THEN <<"&">> \o html_unescape(rest)
             ELSE replace_charref(SubSeq(rest, 1, len))
                    \o html_unescape(SubSeq(rest, len + 1, Len(rest)))

(***************************************************************************)
(* json.dumps and json.load.  A JSON text is modelled by its syntax tree,  *)
(* with the leaves as they are written: a string as its quoted and         *)
(* escaped characters, a number as its digits.                             *)
(***************************************************************************)
JNull        == [j |-> "null"]
JNumber(tx)  == [j |-> "number", text |-> tx]
JString(tx)  == [j |-> "string", text |-> tx]
JArray(q)    == [j |-> "array", items |-> q]
JObject(f)   == [j |-> "object", members |-> f]

DigitChars == <<"0", "1", "2", "3", "4", "5", "6", "7", "8", "9">>

\* int.__repr__ for n >= 0
RECURSIVE Digits(_)
Digits(n) ==
    IF n < 10 THEN <<DigitChars[n + 1]>>
    ELSE Digits(n \div 10) \o <<DigitChars[(n % 10) + 1]>>

\* int(text) for a text of digits
RECURSIVE ParseInt(_)
ParseInt(tx) ==
    LET d == (CHOOSE i \in 1..10 : DigitChars[i] = tx[Len(tx)]) - 1
    IN  IF Len(tx) = 1 THEN d
        ELSE 10 * ParseInt(SubSeq(tx, 1, Len(tx) - 1)) + d

\* py_encode_basestring_ascii: the characters between the quotes
RECURSIVE JsonEscape(_)
JsonEscape(s) ==
    IF s = <<>> THEN <<>>
    ELSE (IF Head(s) \in {"\"", "\\"} THEN <<"\\", Head(s)>> ELSE <<Head(s)>>)
           \o JsonEscape(Tail(s))

JsonQuote(s) == <<"\"">> \o JsonEscape(s) \o <<"\"">>

\* scanstring: the characters up to the closing quote, a backslash taking
\* the character after it
RECURSIVE JsonScan(_)
JsonScan(tx) ==
    IF tx = <<>> \/ Head(tx) = "\"" THEN <<>>
    ELSE IF Head(tx) = "\\" THEN <<tx[2]>> \o JsonScan(SubSeq(tx, 3, Len(tx)))
    ELSE <<Head(tx)>> \o JsonScan(Tail(tx))

JsonUnquote(tx) == JsonScan(Tail(tx))

\* the sequences that list the elements of S once each
Orderings(S) == {q \in [1..Cardinality(S) -> S] : Range(q) = S}

\* a conversion that keeps one element of a set only
SetEncoder_default_one(o) == {PyList(<<x>>) : x \in o.v}

\* _SetEncoder.default for a set: list(o), in whatever order the set
\* iterates (every order is a possible result)
SetEncoder_default(o) == {PyList(q) : q \in Orderings(o.v)}

\* json.dumps(v, cls=_SetEncoder): the texts it can produce
RECURSIVE Encodings(_), EncodeItems(_), EncodeMembers(_)
Encodings(v) ==
    CASE v.t = "None" -> {JNull}
      [] v.t = "int"  -> {JNumber(Digits(v.v))}
      [] v.t = "str"  -> {JString(JsonQuote(v.v))}
      [] v.t = "list" -> {JArray(q) : q \in EncodeItems(v.v)}
      [] v.t = "dict" -> {JObject(f) : f \in EncodeMembers(v.v)}
      [] v.t = "set"  -> UNION {Encodings(l) : l \in SetEncoder_default(v)}

EncodeItems(q) ==
    IF q = <<>> THEN {<<>>}
    ELSE {Append(front, e) : front \in EncodeItems(SubSeq(q, 1, Len(q) - 1)),
                             e \in Encodings(q[Len(q)])}

EncodeMembers(f) ==
    IF DOMAIN f = {} THEN {<<>>}
    ELSE LET k    == CHOOSE k \in DOMAIN f : TRUE
             rest == [x \in DOMAIN f \ {k} |-> f[x]]
         IN  {(k :> e) @@ r : e \in Encodings(f[k]), r \in EncodeMembers(rest)}

\* json.load: the Python value of a text
RECURSIVE Decode(_)
Decode(js) ==
    CASE js.j = "null"   -> None
      [] js.j = "number" -> PyInt(ParseInt(js.text))
      [] js.j = "string" -> PyStr(JsonUnquote(js.text))
      [] js.j = "array"  -> PyList([i \in 1..Len(js.items) |-> Decode(js.items[i])])
      [] js.j = "object" -> PyDict([k \in DOMAIN js.members |-> Decode(js.members[k])])

(***************************************************************************)
(* CustomJsonReporter                                                      *)
(***************************************************************************)
\* x or "" for a str or None x
OrEmpty(x) == IF x = None \/ x = PyStr(<<>>) THEN <<>> ELSE x.v

\* a buffer that keeps one record of each kind only
AppendUnique(buf, rec) == IF rec \in Range(buf) THEN buf ELSE Append(buf, rec)

\* self.messages.append(rec)
AppendRecord(buf, rec) == Append(buf, rec)

handle_message(msg) ==
    /\ messages' = AppendRecord(messages,
          [type    |-> msg.category,
           module  |-> msg.module,
           obj     |-> msg.obj,
           line    |-> msg.line,
           column  |-> msg.column,
           path    |-> msg.path,
           symbol  |-> msg.symbol,
           message |-> PyStr(html_escape(OrEmpty(msg.msg)))]
          @@ ("message-id" :> msg.msg_id))
    /\ events' = Append(events, msg)
    /\ UNCHANGED <<out, host, loaded, scoreVars, renderVars, mainVars>>

display_messages == UNCHANGED vars

display_reports == UNCHANGED vars

_display == UNCHANGED vars

\* the object on_close hands to json.dumps
Document(buf, st, prev) ==
    PyDict([messages       |-> PyList([i \in 1..Len(buf) |-> PyDict(buf[i])]),
            stats          |-> st,
            previous_stats |-> prev])

on_close(st, prev) ==
    /\ \E doc \in Encodings(Document(messages, st, prev)) :
          out' = Append(out, doc)
    /\ host' = Append(host, [stats |-> st, previous_stats |-> prev])
    /\ UNCHANGED <<messages, events, loaded, scoreVars, renderVars, mainVars>>

\* the other half of the system reads the document: json.load(h)
LoadJson ==
    /\ out # <<>>
    /\ loaded' = Decode(out[Len(out)])
    /\ UNCHANGED <<messages, out, events, host, scoreVars, renderVars, mainVars>>

(***************************************************************************)
(* The values each part has while another part is being exercised.         *)
(***************************************************************************)
ScoreIdle    == stats = <<>> /\ score = Pending
RenderIdle   == data = <<>> /\ html = Pending
ReporterIdle == /\ messages = <<>> /\ out = <<>> /\ events = <<>>
                /\ host = <<>> /\ loaded = Pending
MainIdle     == /\ pc = "idle" /\ args = <<>> /\ json_file = "none"
                /\ html_file = "none" /\ json_data = Pending
                /\ printed = <<>> /\ failure = "none"

SeqsUpTo(S, n) == UNION {[1..k -> S] : k \in 0..n}

(***************************************************************************)
(* The score calculator on its own: every statistics mapping over the      *)
(* five keys get_score reads, each key present or absent.                  *)
(***************************************************************************)
ScoreKeys == {"statement", "error", "warning", "refactor", "convention"}

Counts == (0..MaxCount) \cup {100}

AllStats == UNION {[K -> Counts] : K \in SUBSET ScoreKeys}

InitScore ==
    /\ stats \in AllStats
    /\ score = Pending
    /\ RenderIdle /\ ReporterIdle /\ MainIdle

CallGetScore ==
    /\ score = Pending
    /\ score' = get_score(stats)
    /\ UNCHANGED <<stats, renderVars, reporterVars, mainVars>>

NextScore == CallGetScore

SpecScore == InitScore /\ [][NextScore]_vars

(***************************************************************************)
(* The renderer on its own.                                                *)
(***************************************************************************)
Modules == {<<"b">>, <<"a", "b">>}

\* pylint derives a message's category from its symbol
CategoryOf(symbol) == IF symbol = <<"l">> THEN <<"a">> ELSE <<"b">>

\* where in a line a diagnostic is and what it is: two different
\* diagnostics at column 5, one at column 2
Findings == {<<2, <<"l">>>>, <<5, <<"l">>>>, <<5, <<"t">>>>}

RenderRecords ==
    {[type |-> CategoryOf(f[2]), module |-> m, obj |-> None, line |-> l,
      column |-> f[1], path |-> m \o <<"p">>, symbol |-> f[2], message |-> <<"m">>]
       : m \in Modules, l \in 1..MaxLine, f \in Findings}

\* the keys of stats['by_module'], in the dict's order
KeyOrders ==
    {ks \in SeqsUpTo(Modules, Cardinality(Modules)) :
        \A i, j \in 1..Len(ks) : i # j => ks[i] # ks[j]}

InitRender ==
    /\ \E ms \in SeqsUpTo(RenderRecords, MaxMessages), ks \in KeyOrders :
          data = [messages |-> ms,
                  stats |-> [statement |-> MaxCount, by_module |-> ks]]
    /\ html = Pending
    /\ ScoreIdle /\ ReporterIdle /\ MainIdle

CallJson2Html ==
    /\ html = Pending
    /\ data # <<>>
    /\ html' = json2html(data)
    /\ UNCHANGED <<data, scoreVars, reporterVars, mainVars>>

NextRender == CallJson2Html

SpecRender == InitRender /\ [][NextRender]_vars

(***************************************************************************)
(* Properties of get_score (under SpecScore).                              *)
(***************************************************************************)
ExampleStats ==
    [statement |-> 100, error |-> 1, warning |-> 2, refactor |-> 0,
     convention |-> 1]

\* C1: when the statement count is present and non-zero, the score is
\* exactly 10 - 10 * (5*errors + warnings + refactors + conventions) /
\* statements, a missing severity counting as 0; for the example statistics
\* (100 statements, 1 error, 2 warnings, 0 refactors, 1 convention) it
\* prints as 9.20.
C1_ScoreFormula ==
    LET n(k) == IF k \in DOMAIN stats THEN stats[k] ELSE 0
    IN  /\ (score # Pending /\ "statement" \in DOMAIN stats /\ n("statement") # 0)
           => /\ score.t = "float"
              /\ score.num * n("statement") =
                    score.den * (10 * n("statement")
                                 - 10 * (5 * n("error") + n("warning")
                                         + n("refactor") + n("convention")))
        /\ (score # Pending /\ stats = ExampleStats) => Format2f(score) = 920

\* the example of C1 has been scored
C1_Witness ==
    /\ score # Pending
    /\ stats = ExampleStats
    /\ score = Float(920, 100)

\* C2: get_score returns None exactly when the statement count is absent or
\* zero, whatever the severity counts, and a number otherwise.
C2_Unavailable ==
    score # Pending =>
        /\ score = None <=> ("statement" \notin DOMAIN stats \/ stats["statement"] = 0)
        /\ score # None => score.t = "float"

\* a zero statement count with errors present has been scored as None
C2_Witness ==
    /\ score = None
    /\ "statement" \in DOMAIN stats
    /\ "error" \in DOMAIN stats
    /\ stats["error"] > 0

(***************************************************************************)
(* Properties of json2html (under SpecRender).                             *)
(***************************************************************************)
\* the number of input records of a module
NumRecords(module) == Count(data.messages, LAMBDA r : r.module = module)

\* the input records of a module at one (line, column), in input order, as
\* the detail table shows them
InputRowsAt(module, l, c) ==
    Project(SelectSeq(data.messages,
                      LAMBDA r : r.module = module /\ r.line = l /\ r.column = c),
            cols2keep)

\* C3: the rows of every module's detail table are non-decreasing in
\* (line, column), and rows with the same (line, column) keep the order they
\* had in the input messages list.
C3_RowsSorted ==
    html # Pending =>
        \A k \in 1..Len(html.sections) :
            LET sec == html.sections[k]
                t   == sec.table
            IN  /\ \A i, j \in 1..Len(t) :
                       i < j => \/ t[i].line < t[j].line
                                \/ t[i].line = t[j].line /\ t[i].column <= t[j].column
                /\ \A i \in 1..Len(t) :
                       SelectSeq(t, LAMBDA r : r.line = t[i].line
                                               /\ r.column = t[i].column)
                         = InputRowsAt(sec.module, t[i].line, t[i].column)

\* a module whose input has column 5 before column 2 on one line, and two
\* different records at one place, has been rendered
C3_Witness ==
    /\ html # Pending
    /\ Len(data.messages) = 3
    /\ data.messages[1].column = 5
    /\ data.messages[2].column = 2
    /\ data.messages[3].column = 5
    /\ \A i \in 1..3 : data.messages[i].line = 1 /\ data.messages[i].module = <<"b">>
    /\ data.messages[1].symbol # data.messages[3].symbol
    /\ Len(html.sections) = 1
    /\ html.sections[1].table
         = Project(<<data.messages[2], data.messages[1], data.messages[3]>>, cols2keep)

\* C4: the summary has one item per key of stats.by_module, in key order,
\* each with the number of records of that module (0 when there are none);
\* a module without records has no detail section, and a module with records
\* has exactly one, showing that number.
C4_SummaryAndSections ==
    html # Pending =>
        LET keys == data.stats.by_module
        IN  /\ Len(html.summary) = Len(keys)
            /\ \A i \in 1..Len(keys) :
                   /\ html.summary[i].module = keys[i]
                   /\ html.summary[i].count = NumRecords(keys[i])
            /\ \A k \in 1..Len(html.sections) :
                   /\ NumRecords(html.sections[k].module) > 0
                   /\ html.sections[k].count = NumRecords(html.sections[k].module)
                   /\ Len(html.sections[k].table) = html.sections[k].count
            /\ \A m \in Modules :
                   NumRecords(m) > 0 =>
                       Cardinality({k \in 1..Len(html.sections) :
                                       html.sections[k].module = m}) = 1

\* a report with a module of no records and a module of two has been rendered
C4_Witness ==
    /\ html # Pending
    /\ data.stats.by_module = <<<<"a", "b">>, <<"b">>>>
    /\ NumRecords(<<"a", "b">>) = 0
    /\ NumRecords(<<"b">>) = 2
    /\ html.summary[1].count = 0
    /\ html.summary[2].count = 2
    /\ Len(html.sections) = 1

\* the modules of the detail sections, in document order
SectionModules == [k \in 1..Len(html.sections) |-> html.sections[k].module]

\* the modules of the summary list, in document order
SummaryModules == [i \in 1..Len(html.summary) |-> html.summary[i].module]

\* C5 as stated: the detail sections follow the order in which the modules
\* are first met in the messages list.
C5_SectionsFirstSeen ==
    html # Pending => SectionModules = FirstSeen(data.messages, "module")

\* C5 amended: the detail sections follow the ascending order of the module
\* names, whatever the order of the messages and of the keys of
\* stats.by_module; the summary list follows the key order of
\* stats.by_module.
C5_SectionsSorted ==
    html # Pending =>
        /\ Range(SectionModules) = {r.module : r \in Range(data.messages)}
        /\ \A i, j \in 1..Len(SectionModules) :
               i < j => StrLt(SectionModules[i], SectionModules[j])
        /\ SummaryModules = data.stats.by_module

\* a report whose messages and whose by_module keys both name "b" before
\* "ab" has been rendered, with the sections in the other order
C5_Witness ==
    /\ html # Pending
    /\ FirstSeen(data.messages, "module") = <<<<"b">>, <<"a", "b">>>>
    /\ data.stats.by_module = <<<<"b">>, <<"a", "b">>>>
    /\ SummaryModules = <<<<"b">>, <<"a", "b">>>>
    /\ SectionModules = <<<<"a", "b">>, <<"b">>>>

(***************************************************************************)
(* The reporter driven by the linter: diagnostics, the display callbacks   *)
(* and on_close in any order, then the document read back.                 *)
(***************************************************************************)
\* a pylint Message
Message(line, obj, path, msg) ==
    [msg_id   |-> PyStr(<<"C", "1">>),
     symbol   |-> PyStr(<<"l", "t">>),
     msg      |-> msg,
     category |-> PyStr(<<"a">>),
     module   |-> PyStr(<<"b">>),
     obj      |-> obj,
     line     |-> PyInt(line),
     column   |-> PyInt(0),
     path     |-> PyStr(path)]

ReporterEvents ==
    {Message(l, None, <<"b">>, PyStr(m)) : l \in {1, 10}, m \in {<<"<">>, <<"t">>}}

SetElements == {PyStr(Digits(i)) : i \in 1..MaxSetSize}

\* statistics with a set directly in them and a set one level down
HostStats ==
    {PyDict([statement    |-> PyInt(Cardinality(X)),
             undefined    |-> PySet(X),
             dependencies |-> PyDict([b |-> PySet(Y)])])
       : X \in SUBSET SetElements, Y \in {{}, SetElements}}

\* there may be no previous run
HostPreviousStats == {None, PyDict([undefined |-> PySet({PyStr(Digits(1))})])}

InitReporter ==
    /\ messages = <<>>
    /\ out = <<>>
    /\ events = <<>>
    /\ host = <<>>
    /\ loaded = Pending
    /\ ScoreIdle /\ RenderIdle /\ MainIdle

NextReporter ==
    \/ Len(events) < MaxEvents /\ \E m \in ReporterEvents : handle_message(m)
    \/ display_messages
    \/ display_reports
    \/ _display
    \/ out = <<>> /\ \E st \in HostStats, prev \in HostPreviousStats : on_close(st, prev)
    \/ LoadJson

SpecReporter == InitReporter /\ [][NextReporter]_vars

(***************************************************************************)
(* One diagnostic followed from the linter to the reader of the document,  *)
(* over every message text of up to MaxMsgLen characters.                  *)
(***************************************************************************)
MsgAlphabet == {"&", "<", ">", ";", "l", "t", "\"", "\\"}

\* where a diagnostic is: a line, an object (or none) and a path
Places == {<<1, None, <<"b">>>>, <<10, PyStr(<<"\"", "t">>), <<"\\", "b">>>>}

RoundTripEvents ==
    {Message(pl[1], pl[2], pl[3], m) :
        pl \in Places,
        m \in {None} \cup {PyStr(tx) : tx \in SeqsUpTo(MsgAlphabet, MaxMsgLen)}}

NextRoundTrip ==
    \/ events = <<>> /\ \E m \in RoundTripEvents : handle_message(m)
    \/ out = <<>> /\ on_close(PyDict([statement |-> PyInt(1)]), None)
    \/ LoadJson

SpecRoundTrip == InitReporter /\ [][NextRoundTrip]_vars

(***************************************************************************)
(* Properties of the reporter.                                             *)
(***************************************************************************)
\* C6: after n diagnostics the buffer holds n records, the i-th built from
\* the i-th diagnostic, duplicates included; the display callbacks and
\* on_close leave the buffer as it is.
C6_BufferIsEventLog ==
    /\ Len(messages) = Len(events)
    /\ \A i \in 1..Len(messages) :
          /\ messages[i].type = events[i].category
          /\ messages[i].module = events[i].module
          /\ messages[i].obj = events[i].obj
          /\ messages[i].line = events[i].line
          /\ messages[i].column = events[i].column
          /\ messages[i].path = events[i].path
          /\ messages[i].symbol = events[i].symbol
          /\ messages[i]["message-id"] = events[i].msg_id
          /\ messages[i].message = PyStr(html_escape(events[i].msg.v))

\* the same diagnostic has been handled twice and on_close has run
C6_Witness ==
    /\ Len(events) = 2
    /\ events[1] = events[2]
    /\ Len(messages) = 2
    /\ messages[1] = messages[2]
    /\ out # <<>>

\* the fields of a record other than the message text
PlainFields ==
    {"type", "module", "obj", "line", "column", "path", "symbol", "message-id"}

\* the i-th record as the reader of the document gets it
LoadedRecord(i) == loaded.v.messages.v[i].v

\* C7 as stated: every field of every record is read back as it was written,
\* and the message text read back, unescaped, is the diagnostic's message.
C7_RoundTripOriginal ==
    loaded # Pending =>
        \A i \in 1..Len(loaded.v.messages.v) :
            /\ \A k \in PlainFields \cup {"message"} : LoadedRecord(i)[k] = messages[i][k]
            /\ PyStr(html_unescape(LoadedRecord(i).message.v)) = events[i].msg

\* C7 amended: every field of every record is read back as it was written,
\* the plain fields being those of the diagnostic; the message text read
\* back, unescaped, is the diagnostic's message, or the empty string when
\* the diagnostic has no message (None).
C7_RoundTrip ==
    loaded # Pending =>
        \A i \in 1..Len(loaded.v.messages.v) :
            /\ \A k \in PlainFields \cup {"message"} : LoadedRecord(i)[k] = messages[i][k]
            /\ LoadedRecord(i).type = events[i].category
            /\ LoadedRecord(i).module = events[i].module
            /\ LoadedRecord(i).obj = events[i].obj
            /\ LoadedRecord(i).line = events[i].line
            /\ LoadedRecord(i).column = events[i].column
            /\ LoadedRecord(i).path = events[i].path
            /\ LoadedRecord(i).symbol = events[i].symbol
            /\ LoadedRecord(i)["message-id"] = events[i].msg_id
            /\ PyStr(html_unescape(LoadedRecord(i).message.v))
                 = IF events[i].msg = None THEN PyStr(<<>>) ELSE events[i].msg

\* a message that spells an entity, on a path with a backslash, has been
\* written, read back and unescaped
C7_Witness ==
    /\ loaded # Pending
    /\ Len(loaded.v.messages.v) = 1
    /\ events[1].msg = PyStr(<<"&", "l", "t">>)
    /\ events[1].path = PyStr(<<"\\", "b">>)
    /\ LoadedRecord(1).message = PyStr(<<"&", "a", "m", "p", ";", "l", "t">>)
    /\ LoadedRecord(1).path = PyStr(<<"\\", "b">>)

\* v with every set in it replaced by a list of the set's elements, each
\* once, is d
RECURSIVE SameUpToSets(_, _)
SameUpToSets(v, d) ==
    CASE v.t = "set"  -> /\ d.t = "list"
                         /\ Len(d.v) = Cardinality(v.v)
                         /\ Range(d.v) = v.v
      [] v.t = "dict" -> /\ d.t = "dict"
                         /\ DOMAIN d.v = DOMAIN v.v
                         /\ \A k \in DOMAIN v.v : SameUpToSets(v.v[k], d.v[k])
      [] v.t = "list" -> /\ d.t = "list"
                         /\ Len(d.v) = Len(v.v)
                         /\ \A i \in 1..Len(v.v) : SameUpToSets(v.v[i], d.v[i])
      [] OTHER        -> d = v

\* the document doc holds the buffer buf and the statistics h
HoldsRun(doc, buf, h) ==
    /\ doc.j = "object"
    /\ DOMAIN doc.members = {"messages", "stats", "previous_stats"}
    /\ Decode(doc.members.messages) = PyList([i \in 1..Len(buf) |-> PyDict(buf[i])])
    /\ SameUpToSets(h.stats, Decode(doc.members.stats))
    /\ SameUpToSets(h.previous_stats, Decode(doc.members.previous_stats))

\* C9: the document printed by on_close holds the whole buffer under
\* 'messages' and the statistics under 'stats' and 'previous_stats', every
\* set in the statistics, at any depth, as a list of exactly its elements.
C9_DocumentAtClose ==
    [][out' # out => HoldsRun(out'[Len(out')], messages, host'[Len(host')])]_vars

\* a document with two records and two-element sets at both depths has been
\* printed
C9_Witness ==
    /\ out # <<>>
    /\ Len(out[1].members.messages.items) = 2
    /\ Len(out[1].members.stats.members.undefined.items) = 2
    /\ Len(out[1].members.stats.members.dependencies.members.b.items) = 2
    /\ out[1].members.previous_stats # JNull

(***************************************************************************)
(* __main__: one command-line run.                                         *)
(*                                                                         *)
(* args describes the command line and the files it names:                 *)
(*   json_given     the positional json_file is there (else sys.stdin)     *)
(*   json_readable  open(json_file, 'r') succeeds                          *)
(*   html_given     -o html_file is there (else sys.stdout)                *)
(*   html_writable  open(html_file, 'w') succeeds                          *)
(*   score          -s is there                                            *)
(*   content        what the input holds: "malformed", or the value        *)
(*                  json.load makes of it                                  *)
(* A handle is "none" (not there yet), "std" (a standard stream, which the *)
(* program did not open), "open" or "closed".                              *)
(***************************************************************************)
Malformed == [t |-> "malformed"]

Given(a, which) == IF which = "json" THEN a.json_given ELSE a.html_given

\* argparse.FileType(mode) fails: the file cannot be opened
OpenFails(a, which) ==
    IF which = "json" THEN a.json_given /\ ~a.json_readable
    ELSE a.html_given /\ ~a.html_writable

\* the value of the argument: the file FileType opened, or the default
Opened(a, which) == IF Given(a, which) THEN "open" ELSE "std"

\* get_parser().parse_args(): argparse takes the arguments in command-line
\* order, FileType opening each file as its argument is met; a file that
\* cannot be opened ends the run (parser.error, SystemExit) with the files
\* opened before it left as they are
ParseArgs ==
    /\ pc = "start"
    /\ \E order \in {<<"json", "html">>, <<"html", "json">>} :
          LET handle(which) ==
                  IF OpenFails(args, order[1]) THEN "none"
                  ELSE IF which = order[1] THEN Opened(args, which)
                  ELSE IF OpenFails(args, order[2]) THEN "none"
                  ELSE Opened(args, which)
              failed == OpenFails(args, "json") \/ OpenFails(args, "html")
          IN  /\ json_file' = handle("json")
              /\ html_file' = handle("html")
              /\ pc' = IF failed THEN "failed" ELSE "parsed"
              /\ failure' = IF failed THEN "SystemExit" ELSE "none"
    /\ UNCHANGED <<args, json_data, printed, scoreVars, renderVars, reporterVars>>

\* with args.json_file as h: json_data = json.load(h)
\* leaving the with block closes h, whether json.load returned or raised
LoadInput ==
    /\ pc = "parsed"
    /\ json_file' = "closed"
    /\ IF args.content = Malformed
       THEN /\ pc' = "failed"
            /\ failure' = "JSONDecodeError"
            /\ UNCHANGED json_data
       ELSE /\ pc' = "loaded"
            /\ json_data' = args.content
            /\ UNCHANGED failure
    /\ UNCHANGED <<args, html_file, printed, scoreVars, renderVars, reporterVars>>

\* print('{:.2f}'.format(get_score(json_data['stats'])), file=sys.stdout)
PrintScore ==
    /\ pc = "loaded"
    /\ args.score
    /\ IF "stats" \notin DOMAIN json_data
       THEN /\ pc' = "failed" /\ failure' = "KeyError" /\ UNCHANGED printed
       ELSE IF get_score(json_data.stats) = None
       THEN \* None has no format ".2f"
            /\ pc' = "failed" /\ failure' = "TypeError" /\ UNCHANGED printed
       ELSE /\ printed' = Append(printed,
                   [file |-> "sys.stdout",
                    text |-> Format2f(get_score(json_data.stats))])
            /\ pc' = "done"
            /\ UNCHANGED failure
    /\ UNCHANGED <<args, json_file, html_file, json_data,
                   scoreVars, renderVars, reporterVars>>

\* print(json2html(json_data), file=args.html_file)
PrintHtml ==
    /\ pc = "loaded"
    /\ ~args.score
    /\ IF \/ "stats" \notin DOMAIN json_data
          \/ "messages" \notin DOMAIN json_data
          \/ "by_module" \notin DOMAIN json_data.stats
       THEN /\ pc' = "failed" /\ failure' = "KeyError" /\ UNCHANGED printed
       ELSE /\ printed' = Append(printed,
                   [file |-> "args.html_file", text |-> json2html(json_data)])
            /\ pc' = "done"
            /\ UNCHANGED failure
    /\ UNCHANGED <<args, json_file, html_file, json_data,
                   scoreVars, renderVars, reporterVars>>

\* the statistics of the inputs: the statement count absent, zero or not
MainStats ==
    {[by_module |-> <<<<"b">>>>, error |-> 1],
     [by_module |-> <<<<"b">>>>, error |-> 1, statement |-> 0],
     [by_module |-> <<<<"b">>>>, error |-> 1, statement |-> MaxCount],
     [by_module |-> <<>>, statement |-> 0],
     [error |-> 1, statement |-> MaxCount]}

MainContents ==
    {Malformed, [messages |-> <<>>]}
      \cup {[messages |-> ms, stats |-> st] :
               ms \in SeqsUpTo({r \in RenderRecords : r.line = 1 /\ r.column = 2}, 1),
               st \in MainStats}
      \cup {[stats |-> st] : st \in MainStats}

InitMain ==
    /\ pc = "start"
    /\ args \in [json_given : BOOLEAN, json_readable : BOOLEAN,
                 html_given : BOOLEAN, html_writable : BOOLEAN,
                 score : BOOLEAN, content : MainContents]
    /\ args.json_readable \/ args.json_given
    /\ args.html_writable \/ args.html_given
    /\ json_file = "none"
    /\ html_file = "none"
    /\ json_data = Pending
    /\ printed = <<>>
    /\ failure = "none"
    /\ ScoreIdle /\ RenderIdle /\ ReporterIdle

NextMain ==
    \/ ParseArgs
    \/ LoadInput
    \/ PrintScore
    \/ PrintHtml

SpecMain == InitMain /\ [][NextMain]_vars

(***************************************************************************)
(* Properties of the command-line run.                                     *)
(***************************************************************************)
Exited == pc \in {"done", "failed"}

\* the input was well-formed JSON with every key the run reads
WellFormedInput ==
    /\ json_data # Pending
    /\ {"messages", "stats"} \subseteq DOMAIN json_data
    /\ "by_module" \in DOMAIN json_data.stats

\* C8: on a well-formed input whose statement count is missing or zero, the
\* run ends normally and prints the score-unavailable sentinel (-1.00) in
\* place of the score, when rendering HTML and with the score-only flag
\* alike; no such run ends in an unhandled failure.
C8_UnavailableIsNotAFailure ==
    (/\ Exited
     /\ WellFormedInput
     /\ get_score(json_data.stats) = None)
    => /\ pc = "done"
       /\ failure = "none"
       /\ Len(printed) = 1
       /\ IF args.score THEN printed[1].text = -100
          ELSE printed[1].text.score = -100

\* C10: when a run whose command line was accepted has ended, normally or
\* by a failure while parsing the JSON, computing the score or rendering, no
\* file handle that the program opened is still open.
C10_HandlesReleased ==
    (Exited /\ failure # "SystemExit") =>
        json_file # "open" /\ html_file # "open"

=============================================================================
